---- MODULE Spec2Model ----
\* Collection creation and management (src/collection.ts): the four exported
\* operations and the example workflow, each an async function that awaits
\* calls delegated to the Metaplex SDK (content store and ledger).
EXTENDS Integers, Sequences, FiniteSets, TLC

\* ------------------------------------------------------------------ bounds

\* Number of addresses the ledger can assign or a caller can name.
MaxCollections == 2

\* ------------------------------------------------------- program constants

\* seller_fee_basis_points of the example metadata (5% royalty).
ExampleBasisPoints == 500

\* share of the single creator of the example.
ExampleShare == 100

\* ------------------------------------------------------------ value sets

Addresses == 1..MaxCollections

Nfts == {"nftA"}

\* Locators the content store may hand out.
Locators == {"loc://abc", "loc://xyz"}

NoLocator == "undefined"

NoRecord == [address |-> 0]

IsRecord(r) == r.address # 0

Payer == "payer"

\* The metadata literal of exampleCreateCollection.
ExampleMetadata ==
    [ name |-> "My Hybrid Collection",
      symbol |-> "MHC",
      image |-> "https://arweave.net/your-image-url",
      seller_fee_basis_points |-> ExampleBasisPoints,
      creators |-> << [address |-> Payer, share |-> ExampleShare] >> ]

\* A document whose creator shares sum to 90 (60 + 30).
Shares90Metadata ==
    [ name |-> "X",
      symbol |-> "XS",
      image |-> "https://arweave.net/x",
      seller_fee_basis_points |-> 0,
      creators |-> << [address |-> "A", share |-> 60],
                      [address |-> "B", share |-> 30] >> ]

\* A document whose shares sum to 100 and whose basis points exceed 10000.
Bps10001Metadata ==
    [ name |-> "Y",
      symbol |-> "YS",
      image |-> "https://arweave.net/y",
      seller_fee_basis_points |-> 10001,
      creators |-> << [address |-> "A", share |-> 60],
                      [address |-> "B", share |-> 40] >> ]

\* Metadata documents a caller hands to uploadCollectionMetadata.
Documents == { ExampleMetadata, Shares90Metadata, Bps10001Metadata }

\* collectionData objects a caller hands to createCollection: any uri, and
\* isMutable is optional.
CollectionDatas ==
    LET base == { [ name |-> Shares90Metadata.name,
                    symbol |-> Shares90Metadata.symbol,
                    uri |-> u,
                    sellerFeeBasisPoints |-> Shares90Metadata.seller_fee_basis_points,
                    creators |-> Shares90Metadata.creators ] : u \in Locators }
    IN  base \cup { b @@ [isMutable |-> m] : b \in base, m \in BOOLEAN }

Delegated == {"uploadMetadata", "create", "verifyCollection", "findByMint", "update"}

ZeroCalls == [c \in Delegated |-> 0]

\* ------------------------------------------------------------------ state

VARIABLES
    ledger,      \* ledger accounts: address -> record or NoRecord
    members,     \* verified membership: <<nft, collection>> pairs
    store,       \* locators the content store has returned
    op,          \* the exported function being run
    pc,          \* the delegated call it awaits, or idle/returned/threw
    args,        \* its arguments
    uri,         \* local `uri` (uploadCollectionMetadata, exampleCreateCollection)
    collection,  \* local `collection` (createCollection, updateCollectionMetadata)
    result,      \* what the call gave its caller
    calls,       \* delegated calls the current call has issued, per kind
    failures,    \* delegated calls of the current call that were rejected
    ledger0,     \* ledger when the current call began
    members0     \* members when the current call began

vars == << ledger, members, store, op, pc, args, uri, collection, result,
           calls, failures, ledger0, members0 >>

Pending == [status |-> "pending"]

Ok(v) == [status |-> "ok", value |-> v]

Error(e) == [status |-> "error", error |-> e]

\* ------------------------------------------------- the code of each function

\* CreateInput with the default written `isMutable || true`: an explicit false
\* is lost.
CreateInput_OrTrue(collectionData) ==
    [ name |-> collectionData.name,
      symbol |-> collectionData.symbol,
      uri |-> collectionData.uri,
      sellerFeeBasisPoints |-> collectionData.sellerFeeBasisPoints,
      creators |-> collectionData.creators,
      isMutable |-> TRUE,
      isCollection |-> TRUE ]

\* The input object createCollection builds for metaplex.nfts().create.
CreateInput(collectionData) ==
    [ name |-> collectionData.name,
      symbol |-> collectionData.symbol,
      uri |-> collectionData.uri,
      sellerFeeBasisPoints |-> collectionData.sellerFeeBasisPoints,
      creators |-> collectionData.creators,
      isMutable |-> IF "isMutable" \in DOMAIN collectionData
                    THEN collectionData.isMutable ELSE TRUE,
      isCollection |-> TRUE ]

\* UpdateInput that also rewrites the name with the new uri.
UpdateInput_AlsoName(found, newUri) ==
    [ nftOrSft |-> found, fields |-> [uri |-> newUri, name |-> newUri] ]

\* The input object updateCollectionMetadata builds for metaplex.nfts().update:
\* the record found and the fields to overwrite.
UpdateInput(found, newUri) ==
    [ nftOrSft |-> found, fields |-> [uri |-> newUri] ]

\* SetupCollectionData that passes the image url where the uploaded uri belongs.
SetupCollectionData_ImageUri(metadata, uploaded) ==
    [ name |-> metadata.name,
      symbol |-> metadata.symbol,
      uri |-> metadata.image,
      sellerFeeBasisPoints |-> metadata.seller_fee_basis_points,
      creators |-> << [address |-> Payer, share |-> ExampleShare] >>,
      isMutable |-> TRUE ]

\* The collectionData exampleCreateCollection hands to createCollection.
SetupCollectionData(metadata, uploaded) ==
    [ name |-> metadata.name,
      symbol |-> metadata.symbol,
      uri |-> uploaded,
      sellerFeeBasisPoints |-> metadata.seller_fee_basis_points,
      creators |-> << [address |-> Payer, share |-> ExampleShare] >>,
      isMutable |-> TRUE ]

\* FirstCall where updateCollectionMetadata writes without the lookup.
FirstCall_NoLookup(o, a) ==
    CASE o = "publish" -> "uploadMetadata"
      [] o = "create"  -> "create"
      [] o = "verify"  -> "verifyCollection"
      [] o = "update"  -> "update"
      [] o = "setup"   -> "uploadMetadata"

\* FirstCall where verifyCollection skips a pair that is already verified.
FirstCall_Dedup(o, a) ==
    CASE o = "publish" -> "uploadMetadata"
      [] o = "create"  -> "create"
      [] o = "verify"  -> IF << a.nftAddress, a.collectionAddress >> \in members
                          THEN "returned" ELSE "verifyCollection"
      [] o = "update"  -> "findByMint"
      [] o = "setup"   -> "uploadMetadata"

\* The first delegated call a function issues with arguments a.
FirstCall(o, a) ==
    CASE o = "publish" -> "uploadMetadata"
      [] o = "create"  -> "create"
      [] o = "verify"  -> "verifyCollection"
      [] o = "update"  -> "findByMint"
      [] o = "setup"   -> "uploadMetadata"

\* Where function o goes when the awaited call p resolves.
OnResolve(o, p) ==
    CASE o = "setup" /\ p = "uploadMetadata" -> "create"
      [] o = "update" /\ p = "findByMint"    -> "update"
      [] OTHER                               -> "returned"

\* OnReject where the workflow catches the upload's failure and goes on.
OnReject_SetupGoesOn(o, p) ==
    IF o = "setup" /\ p = "uploadMetadata" THEN "create" ELSE "threw"

\* OnReject where verifyCollection catches the failure, logs it and returns.
OnReject_VerifyReturns(o, p) ==
    IF o = "verify" THEN "returned" ELSE "threw"

\* OnReject where the rejected call is issued again.
OnReject_Retry(o, p) == p

\* Where function o goes when the awaited call p rejects: no function has a
\* try/catch, so the rejection leaves the function.
OnReject(o, p) == "threw"

\* What function o returns.
ReturnValue(o, u, c) ==
    CASE o = "publish" -> u
      [] o = "create"  -> c
      [] o = "setup"   -> c
      [] OTHER         -> "void"

\* The collectionData of the running createCollection.
CollectionData ==
    IF op = "setup" THEN SetupCollectionData(ExampleMetadata, uri)
    ELSE args.collectionData

\* ------------------------------------------------------ the collaborators

\* The account a settled create transaction leaves on the ledger.
LedgerCreate(a, input) ==
    [ address |-> a,
      name |-> input.name,
      symbol |-> input.symbol,
      uri |-> input.uri,
      sellerFeeBasisPoints |-> input.sellerFeeBasisPoints,
      creators |-> input.creators,
      isMutable |-> input.isMutable ]

\* The account after an update transaction: the fields given are overwritten.
LedgerUpdate(rec, fields) ==
    [ f \in DOMAIN rec |-> IF f \in DOMAIN fields THEN fields[f] ELSE rec[f] ]

FreeAddresses == { a \in Addresses : ~IsRecord(ledger[a]) }

\* --------------------------------------------------------------- actions

Idle == pc \in {"idle", "returned", "threw"}

\* Move to `next`, issuing it when it is a delegated call; u, c are the
\* locals after this step and e the error in flight.
Continue(next, u, c, e) ==
    /\ pc' = next
    /\ calls' = IF next \in Delegated
                THEN [calls EXCEPT ![next] = @ + 1] ELSE calls
    /\ result' = IF next = "returned" THEN Ok(ReturnValue(op, u, c))
                 ELSE IF next = "threw" THEN Error(e)
                 ELSE Pending

\* A caller invokes function o with arguments a.
Begin(o, a) ==
    /\ Idle
    /\ op' = o
    /\ args' = a
    /\ uri' = NoLocator
    /\ collection' = NoRecord
    /\ failures' = 0
    /\ ledger0' = ledger
    /\ members0' = members
    /\ LET next == FirstCall(o, a)
       IN  /\ pc' = next
           /\ calls' = IF next \in Delegated
                       THEN [ZeroCalls EXCEPT ![next] = 1] ELSE ZeroCalls
           /\ result' = IF next = "returned" THEN Ok(ReturnValue(o, NoLocator, NoRecord))
                        ELSE Pending
    /\ UNCHANGED << ledger, members, store >>

CallUploadCollectionMetadata ==
    \E d \in Documents : Begin("publish", [metadata |-> d])

CallCreateCollection ==
    \E cd \in CollectionDatas : Begin("create", [collectionData |-> cd])

CallVerifyCollection ==
    \E c \in Addresses, n \in Nfts :
        Begin("verify", [collectionAddress |-> c, nftAddress |-> n])

CallUpdateCollectionMetadata ==
    \E c \in Addresses, u \in Locators :
        Begin("update", [collectionAddress |-> c, newUri |-> u])

CallExampleCreateCollection ==
    Begin("setup", [metadata |-> ExampleMetadata])

\* The rejection of the awaited call with error kind k.
Reject(k) ==
    /\ failures' = failures + 1
    /\ Continue(OnReject(op, pc), uri, collection, [kind |-> k, from |-> pc])
    /\ UNCHANGED << ledger, members, store, op, args, uri, collection,
                    ledger0, members0 >>

UploadMetadataResolves ==
    /\ pc = "uploadMetadata"
    /\ \E l \in Locators :
        /\ store' = store \cup {l}
        /\ uri' = l
        /\ Continue(OnResolve(op, pc), l, collection, [kind |-> "none", from |-> pc])
    /\ UNCHANGED << ledger, members, op, args, collection, failures,
                    ledger0, members0 >>

UploadMetadataRejects ==
    /\ pc = "uploadMetadata"
    /\ Reject("PublishError")

CreateResolves ==
    /\ pc = "create"
    /\ \E a \in FreeAddresses :
        LET rec == LedgerCreate(a, CreateInput(CollectionData))
        IN  /\ ledger' = [ledger EXCEPT ![a] = rec]
            /\ collection' = rec
            /\ Continue(OnResolve(op, pc), uri, rec, [kind |-> "none", from |-> pc])
    /\ UNCHANGED << members, store, op, args, uri, failures, ledger0, members0 >>

CreateRejects ==
    /\ pc = "create"
    /\ Reject("LedgerError")

VerifyCollectionResolves ==
    /\ pc = "verifyCollection"
    /\ IsRecord(ledger[args.collectionAddress])
    /\ members' = members \cup { << args.nftAddress, args.collectionAddress >> }
    /\ Continue(OnResolve(op, pc), uri, collection, [kind |-> "none", from |-> pc])
    /\ UNCHANGED << ledger, store, op, args, uri, collection, failures,
                    ledger0, members0 >>

VerifyCollectionRejects ==
    /\ pc = "verifyCollection"
    /\ Reject("LedgerError")

FindByMintResolves ==
    /\ pc = "findByMint"
    /\ IsRecord(ledger[args.collectionAddress])
    /\ collection' = ledger[args.collectionAddress]
    /\ Continue(OnResolve(op, pc), uri, ledger[args.collectionAddress],
                [kind |-> "none", from |-> pc])
    /\ UNCHANGED << ledger, members, store, op, args, uri, failures,
                    ledger0, members0 >>

FindByMintRejects ==
    /\ pc = "findByMint"
    /\ ~IsRecord(ledger[args.collectionAddress])
    /\ Reject("NotFoundError")

UpdateResolves ==
    /\ pc = "update"
    /\ LET input == UpdateInput(collection, args.newUri)
           a == input.nftOrSft.address
       IN  /\ IsRecord(input.nftOrSft)
           /\ IsRecord(ledger[a])
           /\ ledger[a].isMutable
           /\ ledger' = [ledger EXCEPT ![a] = LedgerUpdate(@, input.fields)]
    /\ Continue(OnResolve(op, pc), uri, collection, [kind |-> "none", from |-> pc])
    /\ UNCHANGED << members, store, op, args, uri, collection, failures,
                    ledger0, members0 >>

UpdateRejects ==
    /\ pc = "update"
    /\ Reject("LedgerError")

Init ==
    /\ ledger = [a \in Addresses |-> NoRecord]
    /\ members = {}
    /\ store = {}
    /\ op = "none"
    /\ pc = "idle"
    /\ args = [none |-> TRUE]
    /\ uri = NoLocator
    /\ collection = NoRecord
    /\ result = Pending
    /\ calls = ZeroCalls
    /\ failures = 0
    /\ ledger0 = [a \in Addresses |-> NoRecord]
    /\ members0 = {}

Next ==
    \/ CallUploadCollectionMetadata
    \/ CallCreateCollection
    \/ CallVerifyCollection
    \/ CallUpdateCollectionMetadata
    \/ CallExampleCreateCollection
    \/ UploadMetadataResolves
    \/ UploadMetadataRejects
    \/ CreateResolves
    \/ CreateRejects
    \/ VerifyCollectionResolves
    \/ VerifyCollectionRejects
    \/ FindByMintResolves
    \/ FindByMintRejects
    \/ UpdateResolves
    \/ UpdateRejects

Spec == Init /\ [][Next]_vars

\* ------------------------------------------------------------ properties

RECURSIVE ShareSum(_)
\* The sum of the shares of a creators list.
ShareSum(cs) == IF cs = << >> THEN 0 ELSE Head(cs).share + ShareSum(Tail(cs))

\* The Metadata Document invariants: shares sum to 100, basis points in range.
ValidDocument(d) ==
    /\ ShareSum(d.creators) = 100
    /\ d.seller_fee_basis_points \in 0..10000

\* The locator an error carries, when it carries one.
ErrorLocator(e) == IF "locator" \in DOMAIN e THEN e.locator ELSE NoLocator

\* The delegated calls function o may issue.
Allowed(o) ==
    CASE o = "publish" -> {"uploadMetadata"}
      [] o = "create"  -> {"create"}
      [] o = "verify"  -> {"verifyCollection"}
      [] o = "update"  -> {"findByMint", "update"}
      [] o = "setup"   -> {"uploadMetadata", "create"}
      [] OTHER         -> {}

\* C1: uploadCollectionMetadata validates the document before any upload: a
\* valid document (shares sum to 100, basis points in [0, 10000]) has its
\* upload issued; any other document fails with ValidationError and no upload
\* call is made.
C1_PublishValidatesBeforeUpload ==
    op = "publish" =>
        IF ValidDocument(args.metadata)
        THEN calls["uploadMetadata"] = 1
        ELSE /\ calls["uploadMetadata"] = 0
             /\ pc = "threw"
             /\ result.error.kind = "ValidationError"

\* C2: in the setup workflow the create call is issued only after the upload
\* was issued and resolved with a locator, and when the upload rejects the
\* create call is never issued.
C2_UploadBeforeCreate ==
    op = "setup" =>
        /\ calls["create"] > 0 =>
              /\ calls["uploadMetadata"] = 1
              /\ uri \in store
              /\ failures = 0 \/ result.error.from = "create"
        /\ (result.status = "error" /\ result.error.from = "uploadMetadata") =>
              /\ calls["create"] = 0
              /\ pc = "threw"

\* C2 witness: the workflow has issued its create call after a resolved upload.
C2_Witness ==
    /\ op = "setup"
    /\ pc = "create"
    /\ calls["create"] = 1
    /\ uri \in store

\* C3 as stated: no verification or update transaction is submitted for a
\* collection address whose creation has not settled, and no create
\* transaction is submitted with a locator no publish has returned.
C3_LifecycleOrdering ==
    /\ calls["verifyCollection"] > 0 => IsRecord(ledger0[args.collectionAddress])
    /\ calls["update"] > 0 => IsRecord(ledger0[args.collectionAddress])
    /\ calls["create"] > 0 => CreateInput(CollectionData).uri \in store

\* C3 amended: no update transaction is submitted for a collection address
\* that did not resolve on the ledger, and the setup workflow submits its
\* create transaction with a locator the content store has returned.
C3_GuardedLifecycleOrdering ==
    /\ calls["update"] > 0 => IsRecord(ledger0[args.collectionAddress])
    /\ (op = "setup" /\ calls["create"] > 0) =>
            CreateInput(CollectionData).uri \in store

\* C3 witness: an update transaction was submitted for a settled collection
\* while another address is still unsettled.
C3_Witness ==
    /\ op = "update"
    /\ calls["update"] = 1
    /\ IsRecord(ledger0[args.collectionAddress])
    /\ \E b \in Addresses : ~IsRecord(ledger[b])

\* C4: updateCollectionMetadata on an address that does not resolve submits
\* no update transaction, leaves the ledger unchanged and ends with the
\* lookup's NotFoundError, not a LedgerError.
C4_UpdateNotFound ==
    (op = "update" /\ ~IsRecord(ledger0[args.collectionAddress])) =>
        /\ calls["update"] = 0
        /\ ledger = ledger0
        /\ members = members0
        /\ pc # "findByMint" =>
              /\ pc = "threw"
              /\ result.status = "error"
              /\ result.error.kind = "NotFoundError"

\* C4 witness: an update of an unresolved address has ended.
C4_Witness ==
    /\ op = "update"
    /\ ~IsRecord(ledger0[args.collectionAddress])
    /\ pc = "threw"

\* C5: a successful updateCollectionMetadata leaves the record with the new
\* locator and every other field of it, every other record and the
\* memberships as they were.
C5_UpdateOverwritesUriOnly ==
    (op = "update" /\ pc = "returned") =>
        LET a == args.collectionAddress
        IN  /\ IsRecord(ledger0[a])
            /\ ledger[a].uri = args.newUri
            /\ DOMAIN ledger[a] = DOMAIN ledger0[a]
            /\ \A f \in DOMAIN ledger0[a] \ {"uri"} : ledger[a][f] = ledger0[a][f]
            /\ \A b \in Addresses \ {a} : ledger[b] = ledger0[b]
            /\ members = members0

\* C5 witness: an update changed the locator of one of two settled records.
C5_Witness ==
    /\ op = "update"
    /\ pc = "returned"
    /\ ledger0[args.collectionAddress].uri # args.newUri
    /\ \E b \in Addresses \ {args.collectionAddress} : IsRecord(ledger[b])

\* C6: when the workflow's upload resolved and its create rejected, the
\* failure the caller gets is the create stage's LedgerError and carries the
\* locator the upload returned.
C6_CreateFailureCarriesLocator ==
    (op = "setup" /\ pc = "threw" /\ uri # NoLocator) =>
        /\ result.error.kind = "LedgerError"
        /\ ErrorLocator(result.error) = uri

\* C7: every verifyCollection call that succeeds has submitted exactly one
\* verification, also for a pair verified before, and then leaves the
\* memberships as the earlier call left them.
C7_VerifyRepeatable ==
    (op = "verify" /\ pc = "returned") =>
        LET pair == << args.nftAddress, args.collectionAddress >>
        IN  /\ calls["verifyCollection"] = 1
            /\ failures = 0
            /\ result.status = "ok"
            /\ pair \in members
            /\ pair \in members0 => members = members0

\* C7 witness: a second verification of an already verified pair succeeded.
C7_Witness ==
    /\ op = "verify"
    /\ pc = "returned"
    /\ << args.nftAddress, args.collectionAddress >> \in members0

\* C8: the record a successful create returns carries the locator, name,
\* symbol, basis points and creators it was given, is mutable unless told
\* otherwise, and in the workflow the locator is the one the upload returned.
C8_LocatorRoundTrip ==
    (op \in {"create", "setup"} /\ pc = "returned") =>
        LET given == CollectionData
            rec == result.value
        IN  /\ rec.uri = given.uri
            /\ rec.name = given.name
            /\ rec.symbol = given.symbol
            /\ rec.sellerFeeBasisPoints = given.sellerFeeBasisPoints
            /\ rec.creators = given.creators
            /\ rec.isMutable = IF "isMutable" \in DOMAIN given
                               THEN given.isMutable ELSE TRUE
            /\ IsRecord(rec)
            /\ ledger[rec.address] = rec
            /\ op = "setup" => (rec.uri = uri /\ uri \in store)

\* C8 witness: a create without isMutable returned a record whose locator
\* came from the content store.
C8_Witness ==
    /\ op = "create"
    /\ pc = "returned"
    /\ "isMutable" \notin DOMAIN args.collectionData
    /\ result.value.uri \in store

\* C9: once a delegated call of a function has rejected, the function has
\* thrown that error, reports no success and issues no further delegated
\* call; a function that reports success had no rejected call.
C9_NoSwallowedError ==
    /\ [](/\ failures > 0 =>
               /\ pc = "threw"
               /\ result.status = "error"
               /\ calls[result.error.from] > 0
          /\ result.status = "ok" => failures = 0)
    /\ [][failures' > 0 => calls' = calls]_vars

\* C9 witness: the update transaction rejected after a resolved lookup.
C9_Witness ==
    /\ op = "update"
    /\ failures = 1
    /\ calls["findByMint"] = 1
    /\ calls["update"] = 1

\* C10: a call issues each delegated call it may issue at most once and no
\* other, and an update transaction only after its one lookup.
C10_NoInternalRetry ==
    /\ \A c \in Delegated : calls[c] <= IF c \in Allowed(op) THEN 1 ELSE 0
    /\ calls["update"] <= calls["findByMint"]

\* C10 witness: the workflow's create rejected after one upload and one
\* create.
C10_Witness ==
    /\ op = "setup"
    /\ pc = "threw"
    /\ calls["uploadMetadata"] = 1
    /\ calls["create"] = 1

====
